---------------------------- MODULE Spec2Model ----------------------------
(***************************************************************************)
(* State-machine model of openephys-to-dh: the conversion orchestrator     *)
(* dh_from_oe_recording (block numbering), the event loader / merge        *)
(* pipeline process_oe_events, and the decimation entry point              *)
(* decimate_raw_data.                                                      *)
(*                                                                         *)
(* The program is single-threaded and batch-oriented: one call of an entry *)
(* point runs start to finish.  Each entry point is one action that draws  *)
(* its inputs, runs the whole function and records the inputs (args), the  *)
(* archive it leaves behind (dh5file), the returned value (ret), the       *)
(* function's local variables at its end (locals) and the exception it     *)
(* raised, if any (error).                                                 *)
(***************************************************************************)
EXTENDS Integers, Sequences, FiniteSets, TLC

VARIABLES
    pc,       \* "idle" before the call, "returned" or "raised" after it
    call,     \* name of the entry point that ran ("none" before)
    args,     \* the inputs the entry point was called with
    dh5file,  \* the archive: file created?, CONT blocks, EV02 table, attrs, operations
    ret,      \* the value the entry point returned
    locals,   \* local variables of the entry point when it ended
    error     \* "none" or the exception type that ended the call

vars == <<pc, call, args, dh5file, ret, locals, error>>

(***************************************************************************)
(* Bounds of the model.                                                    *)
(***************************************************************************)
MaxStreams == 2        \* continuous streams per recording
MaxChannels == 2       \* channels of a small continuous stream

(***************************************************************************)
(* Generic helpers.                                                        *)
(***************************************************************************)
Range(s) == {s[i] : i \in DOMAIN s}

SeqsUpTo(S, n) == UNION {[1..k -> S] : k \in 0..n}

RECURSIVE Flatten(_)
Flatten(ss) == IF ss = <<>> THEN <<>> ELSE Head(ss) \o Flatten(Tail(ss))

NoError == "none"

EmptyArchive ==
    [created |-> FALSE, cont |-> <<>>, ev02_written |-> FALSE,
     ev02 |-> [timestamps |-> <<>>, event_codes |-> <<>>],
     attrs |-> <<>>, operations |-> <<>>]

(***************************************************************************)
(* dh_from_oe_recording.py: the channel addressing scheme.                 *)
(***************************************************************************)
ContGroups == [RAW |-> 1, ANALOG |-> 1601, LFP |-> 2001, ESA |-> 4001, AP |-> 6001]

\* inclusive (start, end) of each group
CONT_GROUP_RANGES ==
    [RAW |-> <<1, 1600>>, ANALOG |-> <<1601, 2000>>, LFP |-> <<2001, 4000>>,
     ESA |-> <<4001, 6000>>, AP |-> <<6001, 8000>>]

OE_PROCESSOR_CONT_GROUP_MAP ==
    [n \in {"PXIe-6341", "PCIe-6341", "example_data", "Neuropix-PXI"} |-> "RAW"]

\* number of identifiers of a group's range
RangeSize(g) == CONT_GROUP_RANGES[g][2] - CONT_GROUP_RANGES[g][1] + 1

(***************************************************************************)
(* Inputs of dh_from_oe_recording.  A continuous stream is its stream_name *)
(* and its channel count (samples.shape[1] = len(metadata.channel_names)). *)
(* Channel counts are small, or fill the RAW range exactly.                *)
(***************************************************************************)
StreamNames == {"PXIe-6341", "Neuropix-PXI", "Acquisition Board"}

ChannelCounts == (1..MaxChannels) \cup {RangeSize("RAW")}

ContinuousStreams == [stream_name : StreamNames, num_channels : ChannelCounts]

\* recording.continuous: None, or a list of streams
Recordings ==
    {[continuous_is_none |-> TRUE, continuous |-> <<>>]}
    \cup {[continuous_is_none |-> FALSE, continuous |-> c] :
            c \in SeqsUpTo(ContinuousStreams, MaxStreams)}

(***************************************************************************)
(* create_cont_group_per_channel: one CONT block per channel, identifiers  *)
(* start_cont_id + channel_index.  The value is the list of the calls of   *)
(* create_cont_group_from_data_in_file it makes, in order.                 *)
(***************************************************************************)
create_cont_group_per_channel(stream, cont, start_cont_id, first_global_channel_index) ==
    [k \in 1..cont.num_channels |->
        [cont_group_id |-> start_cont_id + (k - 1),
         stream |-> stream,
         BoardChanNo |-> k - 1,
         GlobalChanNumber |-> first_global_channel_index + (k - 1)]]

(***************************************************************************)
(* create_cont_group_per_continuous_stream: one CONT block for the stream. *)
(***************************************************************************)
create_cont_group_per_continuous_stream(stream, cont, start_cont_id) ==
    <<[cont_group_id |-> start_cont_id,
       stream |-> stream,
       BoardChanNo |-> 0,
       GlobalChanNumber |-> 0]>>

(***************************************************************************)
(* The loop over recording.continuous of dh_from_oe_recording, from stream *)
(* i on, with the blocks written so far and global_channel_index.  An      *)
(* unknown stream name raises ValueError and ends the loop.                *)
(***************************************************************************)
RECURSIVE ContLoop(_, _, _, _, _)
ContLoop(continuous, split, i, global_channel_index, written) ==
    IF i > Len(continuous) THEN [error |-> NoError, cont |-> written]
    ELSE
        LET cont == continuous[i]
        IN  IF cont.stream_name \notin DOMAIN OE_PROCESSOR_CONT_GROUP_MAP
            THEN [error |-> "ValueError", cont |-> written]
            ELSE
                LET cont_group == OE_PROCESSOR_CONT_GROUP_MAP[cont.stream_name]
                    group_range_start_index == CONT_GROUP_RANGES[cont_group][1]
                    start_cont_id == global_channel_index + group_range_start_index
                IN  IF split
                    THEN ContLoop(continuous, split, i + 1,
                                  global_channel_index + cont.num_channels,
                                  written \o create_cont_group_per_channel(
                                      i, cont, start_cont_id, global_channel_index))
                    ELSE ContLoop(continuous, split, i + 1,
                                  global_channel_index,
                                  written \o create_cont_group_per_continuous_stream(
                                      i, cont, start_cont_id))

(***************************************************************************)
(* dh_from_oe_recording: the two 'no continuous data' checks, then the     *)
(* archive file is created, then the loop.                                 *)
(***************************************************************************)
\* fault variant: the empty list of streams is not rejected
DhNoEmptyCheck(recording, split) ==
    IF recording.continuous_is_none
    THEN [error |-> "AssertionError", created |-> FALSE, cont |-> <<>>]
    ELSE LET r == ContLoop(recording.continuous, split, 1, 0, <<>>)
         IN  [error |-> r.error, created |-> TRUE, cont |-> r.cont]

\* fault variant: an unknown stream is skipped and the loop goes on
DhStopsOnlyThatStream(recording, split) ==
    IF recording.continuous_is_none
    THEN [error |-> "AssertionError", created |-> FALSE, cont |-> <<>>]
    ELSE IF Len(recording.continuous) = 0
    THEN [error |-> "ValueError", created |-> FALSE, cont |-> <<>>]
    ELSE LET known == SelectSeq(recording.continuous,
                        LAMBDA c : c.stream_name \in DOMAIN OE_PROCESSOR_CONT_GROUP_MAP)
             r == ContLoop(known, split, 1, 0, <<>>)
         IN  [error |-> IF Len(known) < Len(recording.continuous)
                        THEN "ValueError" ELSE NoError,
              created |-> TRUE, cont |-> r.cont]

dh_from_oe_recording(recording, split) ==
    IF recording.continuous_is_none
    THEN [error |-> "AssertionError", created |-> FALSE, cont |-> <<>>]
    ELSE IF Len(recording.continuous) = 0
    THEN [error |-> "ValueError", created |-> FALSE, cont |-> <<>>]
    ELSE LET r == ContLoop(recording.continuous, split, 1, 0, <<>>)
         IN  [error |-> r.error, created |-> TRUE, cont |-> r.cont]

DhFromOeRecording ==
    /\ pc = "idle"
    /\ \E recording \in Recordings, split \in BOOLEAN :
          LET r == dh_from_oe_recording(recording, split)
          IN  /\ call' = "dh_from_oe_recording"
              /\ args' = [recording |-> recording,
                          split_channels_into_cont_blocks |-> split]
              /\ dh5file' = [EmptyArchive EXCEPT !.created = r.created,
                                                 !.cont = r.cont]
              /\ error' = r.error
              /\ pc' = IF r.error = NoError THEN "returned" ELSE "raised"
              /\ ret' = <<>>
              /\ locals' = <<>>

(***************************************************************************)
(* events.py: the data of an event folder and the event variants.          *)
(*                                                                         *)
(* Timestamps on disk are seconds as floating point.  The model counts     *)
(* them in half nanoseconds (a tick), so that timestamps * 1e9 is tick / 2 *)
(* and np.round, which rounds halves to the even neighbour, has halves to  *)
(* round.                                                                  *)
(***************************************************************************)
MaxEvents == 3         \* event samples of one recording, all sources together
MaxWords == 6          \* samples of the event given to the de-duplication alone

Ticks == {0, 1, 3}
States == {-3, 4}      \* per-sample state codes of the primary source
Words == {5, 7}        \* full words of the marker source
DedupWords == {2, 5, 7}

\* np.round(tick / 2) as np.int64: round half to even
RoundHalfEven(tick) ==
    LET q == tick \div 2
    IN  IF tick % 2 = 0 THEN q
        ELSE IF q % 2 = 0 THEN q ELSE q + 1

\* np.int64(np.round(timestamps * 1e9))
ToNanoseconds(timestamps) == [i \in DOMAIN timestamps |-> RoundHalfEven(timestamps[i])]

\* Event.__init__: the four arrays must have one length
EventInit(metadata, full_words, timestamps, states, sample_numbers) ==
    IF /\ Len(full_words) = Len(timestamps)
       /\ Len(timestamps) = Len(states)
       /\ Len(states) = Len(sample_numbers)
    THEN [error |-> NoError,
          value |-> [type |-> "Event", metadata |-> metadata,
                     full_words |-> full_words, timestamps |-> timestamps,
                     states |-> states, sample_numbers |-> sample_numbers]]
    ELSE [error |-> "AssertionError", value |-> <<>>]

\* Event.from_folder: the four .npy files of the folder
EventFromFolder(folder, metadata) ==
    EventInit(metadata, folder.full_words, folder.timestamps, folder.states,
              folder.sample_numbers)

(***************************************************************************)
(* remove_repeating_simultaneous_words.  np.diff(full_words,               *)
(* prepend=np.nan) is computed in floating point: its first element is     *)
(* full_words[0] - nan = nan, the others full_words[i] - full_words[i-1];  *)
(* nan != 0 is true.  A float is [nan, val].                               *)
(***************************************************************************)
DiffPrependNan(a) ==
    [i \in DOMAIN a |->
        IF i = 1 THEN [nan |-> TRUE, val |-> 0]
        ELSE [nan |-> FALSE, val |-> a[i] - a[i - 1]]]

NotEqualZero(x) == x.nan \/ x.val # 0

\* np.where(cond)[0]: the indices where cond holds, ascending
RECURSIVE Where(_, _)
Where(cond, i) ==
    IF i > Len(cond) THEN <<>>
    ELSE (IF cond[i] THEN <<i>> ELSE <<>>) \o Where(cond, i + 1)

\* a[indices]
Take(a, indices) == [k \in DOMAIN indices |-> a[indices[k]]]

\* indices of the first occurrence of each value (np.unique's return_index)
RECURSIVE FirstOccurrences(_, _)
FirstOccurrences(a, i) ==
    IF i > Len(a) THEN <<>>
    ELSE (IF \E j \in 1..(i - 1) : a[j] = a[i] THEN <<>> ELSE <<i>>)
         \o FirstOccurrences(a, i + 1)

\* fault variant: every later occurrence of a word is dropped
UniqueIndicesGlobal(full_words) == FirstOccurrences(full_words, 1)

UniqueIndices(full_words) ==
    LET d == DiffPrependNan(full_words)
    IN  Where([i \in DOMAIN d |-> NotEqualZero(d[i])], 1)

remove_repeating_simultaneous_words(event) ==
    LET unique_indices == UniqueIndices(event.full_words)
    IN  [type |-> "FullWordEvent", metadata |-> event.metadata,
         full_words |-> Take(event.full_words, unique_indices),
         timestamps |-> Take(event.timestamps, unique_indices),
         sample_numbers |-> Take(event.sample_numbers, unique_indices)]

\* FullWordEvent(...): the __init__ the dataclass decorator generates stores
\* the fields; the lengths are compared in __len__ only
FullWordEventInit(metadata, full_words, timestamps, sample_numbers) ==
    [error |-> NoError,
     value |-> [type |-> "FullWordEvent", metadata |-> metadata,
                full_words |-> full_words, timestamps |-> timestamps,
                sample_numbers |-> sample_numbers]]

\* Messages(...): the generated __init__ stores the fields; the class has no
\* length comparison
MessagesInit(metadata, text, sample_numbers, timestamps) ==
    [error |-> NoError,
     value |-> [type |-> "Messages", metadata |-> metadata, text |-> text,
                sample_numbers |-> sample_numbers,
                timestamps |-> timestamps]]

\* Messages.from_folder
MessagesFromFolder(folder, metadata) ==
    MessagesInit(metadata, folder.text, folder.sample_numbers, folder.timestamps)

(***************************************************************************)
(* event_from_eventfolder.  disk maps the folder names that exist under    *)
(* <recording_directory>/events to their files.                            *)
(***************************************************************************)
\* fault variant: an unrecognised source_processor is refused instead of
\* loaded as a generic Event
EventFromEventfolderStrict(disk, metadata) ==
    IF metadata.folder_name \notin DOMAIN disk
    THEN [error |-> "AssertionError", warned |-> FALSE, value |-> <<>>]
    ELSE
        LET folder == disk[metadata.folder_name]
        IN  CASE metadata.source_processor = "Network Events" ->
                   LET e == EventFromFolder(folder, metadata)
                   IN  IF e.error # NoError
                       THEN [error |-> e.error, warned |-> FALSE, value |-> <<>>]
                       ELSE [error |-> NoError, warned |-> FALSE,
                             value |-> remove_repeating_simultaneous_words(e.value)]
              [] metadata.source_processor = "Message Center" ->
                   LET m == MessagesFromFolder(folder, metadata)
                   IN  [error |-> m.error, warned |-> FALSE, value |-> m.value]
              [] metadata.source_processor = "NI-DAQmx" ->
                   LET e == EventFromFolder(folder, metadata)
                   IN  [error |-> e.error, warned |-> FALSE, value |-> e.value]
              [] OTHER ->
                   [error |-> "ValueError", warned |-> FALSE, value |-> <<>>]

event_from_eventfolder(disk, metadata) ==
    IF metadata.folder_name \notin DOMAIN disk
    THEN [error |-> "AssertionError", warned |-> FALSE, value |-> <<>>]
    ELSE
        LET folder == disk[metadata.folder_name]
        IN  CASE metadata.source_processor = "Network Events" ->
                   LET e == EventFromFolder(folder, metadata)
                   IN  IF e.error # NoError
                       THEN [error |-> e.error, warned |-> FALSE, value |-> <<>>]
                       ELSE [error |-> NoError, warned |-> FALSE,
                             value |-> remove_repeating_simultaneous_words(e.value)]
              [] metadata.source_processor = "Message Center" ->
                   LET m == MessagesFromFolder(folder, metadata)
                   IN  [error |-> m.error, warned |-> FALSE, value |-> m.value]
              [] metadata.source_processor = "NI-DAQmx" ->
                   LET e == EventFromFolder(folder, metadata)
                   IN  [error |-> e.error, warned |-> FALSE, value |-> e.value]
              [] OTHER ->
                   LET e == EventFromFolder(folder, metadata)
                   IN  [error |-> e.error, warned |-> TRUE, value |-> e.value]

IsEv02Source(event) ==
    event.source_processor = "NI-DAQmx" /\ event.stream_name = "PXIe-6341"

IsMarkerSource(event) == event.source_processor = "Network Events"

\* the loops over oeinfo["events"] return the first matching entry, else
\* None; the value is a list of 0 or 1 elements
find_ev02_source(oeinfo) ==
    LET matching == {i \in DOMAIN oeinfo : IsEv02Source(oeinfo[i])}
    IN  IF matching = {} THEN <<>>
        ELSE <<oeinfo[CHOOSE i \in matching : \A j \in matching : i <= j]>>

find_marker_source(oeinfo) ==
    LET matching == {i \in DOMAIN oeinfo : IsMarkerSource(oeinfo[i])}
    IN  IF matching = {} THEN <<>>
        ELSE <<oeinfo[CHOOSE i \in matching : \A j \in matching : i <= j]>>

(***************************************************************************)
(* np.argsort(timestamps_ns), default kind 'quicksort': an index           *)
(* permutation that sorts the array.  The default sort is not stable, so   *)
(* every order of equal timestamps is a possible result: the set of        *)
(* results is built by repeatedly taking an index of a least remaining     *)
(* timestamp.                                                              *)
(***************************************************************************)
RECURSIVE SortingPermutations(_, _)
SortingPermutations(a, remaining) ==
    IF remaining = {} THEN {<<>>}
    ELSE UNION {
            { <<i>> \o rest : rest \in SortingPermutations(a, remaining \ {i}) } :
            i \in {i \in remaining : \A j \in remaining : a[i] <= a[j]} }

\* fault variant: the arrays are left in concatenation order
IdentityPermutation(a) == {[i \in DOMAIN a |-> i]}

\* fault variant: one index per distinct timestamp, as np.unique returns
ArgSortUnique(a) ==
    SortingPermutations(a, {i \in DOMAIN a : \A j \in 1..(i - 1) : a[j] # a[i]})

\* fault variant: the sort runs from the latest timestamp to the earliest
ArgSortDescending(a) ==
    { [k \in DOMAIN p |-> p[Len(p) + 1 - k]] : p \in SortingPermutations(a, DOMAIN a) }

ArgSort(a) == SortingPermutations(a, DOMAIN a)

\* the codes each source contributes to the merge
PrimaryCodes(states) == states

\* fault variant: the marker codes are merged without the offset
MarkerCodesNoOffset(full_words, network_events_offset) == full_words

MarkerCodes(full_words, network_events_offset) ==
    [i \in DOMAIN full_words |-> full_words[i] + network_events_offset]

\* the attributes one name map writes: name -> code + network_events_offset
NameAttrs(name_map, network_events_offset) ==
    [n \in DOMAIN name_map |-> name_map[n] + network_events_offset]

\* fault variant: the trigger table is already in the file when the
\* exception is raised
RaisedAfterWrite(e, where) ==
    [error |-> e, ev02_written |-> TRUE,
     ev02 |-> [timestamps |-> <<>>, event_codes |-> <<>>], attrs |-> <<>>,
     locals |-> [raised_at |-> where]]

\* an exception leaves process_oe_events before anything is written
RaisedInEvents(e, where) ==
    [error |-> e, ev02_written |-> FALSE,
     ev02 |-> [timestamps |-> <<>>, event_codes |-> <<>>], attrs |-> <<>>,
     locals |-> [raised_at |-> where]]

(***************************************************************************)
(* process_oe_events: the set of its possible outcomes (one per result of  *)
(* the sort).  An optional value is a list of 0 or 1 elements.             *)
(***************************************************************************)
process_oe_events(event_config, oeinfo, disk) ==
    LET ev02_source_metadata == find_ev02_source(oeinfo)
        primary == IF ev02_source_metadata = <<>>
                   THEN [error |-> NoError, value |-> <<>>]
                   ELSE event_from_eventfolder(disk, ev02_source_metadata[1])
    IN
    IF primary.error # NoError
    THEN {RaisedInEvents(primary.error, "event_from_eventfolder")}
    ELSE IF ev02_source_metadata # <<>> /\ primary.value.type # "Event"
    THEN {RaisedInEvents("AssertionError", "isinstance")}
    ELSE
    LET timestamps_ns1 == IF ev02_source_metadata = <<>> THEN <<>>
                          ELSE ToNanoseconds(primary.value.timestamps)
        event_codes1 == IF ev02_source_metadata = <<>> THEN <<>>
                        ELSE PrimaryCodes(primary.value.states)
        network_events_offset == event_config.network_events_offset
        network_events_source == find_marker_source(oeinfo)
        marker == IF network_events_source = <<>>
                  THEN [error |-> NoError, value |-> <<>>]
                  ELSE event_from_eventfolder(disk, network_events_source[1])
    IN
    IF marker.error # NoError
    THEN {RaisedInEvents(marker.error, "event_from_eventfolder")}
    ELSE IF network_events_source # <<>> /\ marker.value.type # "FullWordEvent"
    THEN {RaisedInEvents("AssertionError", "isinstance")}
    ELSE
    LET timestamps_ns2 ==
            IF network_events_source = <<>> THEN timestamps_ns1
            ELSE timestamps_ns1 \o ToNanoseconds(marker.value.timestamps)
        event_codes2 ==
            IF network_events_source = <<>> THEN event_codes1
            ELSE event_codes1 \o MarkerCodes(marker.value.full_words,
                                             network_events_offset)
        ttl_attrs ==
            IF event_config.ttl_line_names = <<>> THEN <<>>
            ELSE NameAttrs(event_config.ttl_line_names[1], network_events_offset)
        net_attrs ==
            IF network_events_source = <<>>
               \/ event_config.network_events_code_name_map = <<>>
            THEN <<>>
            ELSE NameAttrs(event_config.network_events_code_name_map[1],
                           network_events_offset)
    IN
    { LET timestamps_ns == Take(timestamps_ns2, sort_indices)
          event_codes == Take(event_codes2, sort_indices)
      IN  IF \E k \in 1..(Len(timestamps_ns) - 1) :
                 timestamps_ns[k + 1] - timestamps_ns[k] < 0
          THEN RaisedInEvents("AssertionError", "np.diff(timestamps_ns) >= 0")
          ELSE [error |-> NoError, ev02_written |-> TRUE,
                ev02 |-> [timestamps |-> timestamps_ns,
                          event_codes |-> event_codes],
                \* later writes to one attribute name replace earlier ones
                attrs |-> net_attrs @@ ttl_attrs,
                locals |-> [sort_indices |-> sort_indices,
                            unsorted_timestamps_ns |-> timestamps_ns2,
                            n_primary |-> Len(timestamps_ns1),
                            primary |-> primary.value,
                            marker |-> marker.value]]
      : sort_indices \in ArgSort(timestamps_ns2) }

(***************************************************************************)
(* Inputs of process_oe_events.                                            *)
(***************************************************************************)
NiDaqMeta ==
    [source_processor |-> "NI-DAQmx", stream_name |-> "PXIe-6341",
     folder_name |-> "NI-DAQmx-100.PXIe-6341/TTL"]

OtherNiDaqMeta ==
    [source_processor |-> "NI-DAQmx", stream_name |-> "PXIe-6363",
     folder_name |-> "NI-DAQmx-100.PXIe-6363/TTL"]

NetworkEventsMeta ==
    [source_processor |-> "Network Events", stream_name |-> "PXIe-6341",
     folder_name |-> "Network_Events-101.PXIe-6341/TTL"]

MessageCenterMeta ==
    [source_processor |-> "Message Center", stream_name |-> "",
     folder_name |-> "MessageCenter"]

\* recording.info["events"]
EventInfos ==
    { <<>>,
      <<MessageCenterMeta, OtherNiDaqMeta>>,
      <<OtherNiDaqMeta, NiDaqMeta>>,
      <<NetworkEventsMeta, MessageCenterMeta>>,
      <<MessageCenterMeta, NiDaqMeta, OtherNiDaqMeta, NetworkEventsMeta>> }

\* the folder of a state/transition source with the given samples
\* (timestamp, state); one full word and one sample number per sample
StateFolder(samples) ==
    [timestamps |-> [i \in DOMAIN samples |-> samples[i][1]],
     states |-> [i \in DOMAIN samples |-> samples[i][2]],
     full_words |-> [i \in DOMAIN samples |-> 0],
     sample_numbers |-> [i \in DOMAIN samples |-> i],
     text |-> <<>>]

\* the folder of a full-word source with the given samples (timestamp, word)
WordFolder(samples) ==
    [timestamps |-> [i \in DOMAIN samples |-> samples[i][1]],
     states |-> [i \in DOMAIN samples |-> 1],
     full_words |-> [i \in DOMAIN samples |-> samples[i][2]],
     sample_numbers |-> [i \in DOMAIN samples |-> i],
     text |-> <<>>]

\* the event folders on disk.  Only the folders of the two sources the
\* pipeline locates in oeinfo are ever read: each of them is missing or
\* holds samples, at most MaxEvents samples altogether; other folders are
\* left out
Disks(oeinfo) ==
    LET has_primary == find_ev02_source(oeinfo) # <<>>
        has_marker == find_marker_source(oeinfo) # <<>>
        PrimaryFolders(np) ==
            (IF np = 0 THEN {<<>>} ELSE {})
            \cup (IF has_primary
                  THEN {NiDaqMeta.folder_name :> StateFolder(s) :
                           s \in [1..np -> Ticks \X States]}
                  ELSE {})
        MarkerFolders(nm) ==
            (IF nm = 0 THEN {<<>>} ELSE {})
            \cup (IF has_marker
                  THEN {NetworkEventsMeta.folder_name :> WordFolder(s) :
                           s \in [1..nm -> Ticks \X Words]}
                  ELSE {})
    IN  UNION { UNION {
            { f @@ g : f \in PrimaryFolders(np), g \in MarkerFolders(nm) }
            : nm \in 0..(IF has_marker THEN MaxEvents - np ELSE 0) }
            : np \in 0..(IF has_primary THEN MaxEvents ELSE 0) }

EventConfigs ==
    { [network_events_offset |-> 100, ttl_line_names |-> <<>>,
       network_events_code_name_map |-> <<>>],
      [network_events_offset |-> 100,
       ttl_line_names |-> <<[n \in {"trial_start"} |-> 4]>>,
       network_events_code_name_map |-> <<[n \in {"stimulus_on"} |-> 5]>>],
      [network_events_offset |-> 0,
       ttl_line_names |-> <<>>,
       network_events_code_name_map |-> <<[n \in {"stimulus_on"} |-> 7]>>] }

ProcessOeEvents ==
    /\ pc = "idle"
    /\ \E event_config \in EventConfigs, oeinfo \in EventInfos :
       \E disk \in Disks(oeinfo) :
        \E r \in process_oe_events(event_config, oeinfo, disk) :
          /\ call' = "process_oe_events"
          /\ args' = [event_config |-> event_config, info |-> oeinfo, disk |-> disk]
          /\ dh5file' = [EmptyArchive EXCEPT !.created = TRUE,
                                             !.ev02_written = r.ev02_written,
                                             !.ev02 = r.ev02,
                                             !.attrs = r.attrs]
          /\ error' = r.error
          /\ pc' = IF r.error = NoError THEN "returned" ELSE "raised"
          /\ ret' = <<>>
          /\ locals' = r.locals

(***************************************************************************)
(* event_from_eventfolder called on its own: a source of any processor     *)
(* identity, its folder missing or holding arrays of up to MaxArrayLen     *)
(* elements whose lengths need not agree.                                  *)
(***************************************************************************)
MaxArrayLen == 2       \* elements of one array of an event folder

FileReaderMeta ==
    [source_processor |-> "File Reader", stream_name |-> "example_data",
     folder_name |-> "File_Reader-102.example_data/TTL"]

EventMetas ==
    {NiDaqMeta, OtherNiDaqMeta, NetworkEventsMeta, MessageCenterMeta,
     FileReaderMeta}

\* the .npy files of one folder
EventFolders ==
    { [full_words |-> w,
       timestamps |-> [i \in 1..nt |-> i],
       states |-> [i \in 1..ns |-> 4],
       sample_numbers |-> [i \in 1..nn |-> i + i],
       text |-> [i \in 1..nx |-> "start"]] :
      w \in SeqsUpTo(Words, MaxArrayLen),
      nt \in 0..MaxArrayLen, ns \in 0..MaxArrayLen,
      nn \in 0..MaxArrayLen, nx \in 0..MaxArrayLen }

EventFromEventfolder ==
    /\ pc = "idle"
    /\ \E metadata \in EventMetas :
       \E disk \in {<<>>} \cup {metadata.folder_name :> f : f \in EventFolders} :
          LET r == event_from_eventfolder(disk, metadata)
          IN  /\ call' = "event_from_eventfolder"
              /\ args' = [disk |-> disk, metadata |-> metadata]
              /\ ret' = r.value
              /\ error' = r.error
              /\ locals' = [warned |-> r.warned]
              /\ pc' = IF r.error = NoError THEN "returned" ELSE "raised"
              /\ UNCHANGED dh5file

(***************************************************************************)
(* The three source variants constructed directly from arrays whose        *)
(* lengths need not agree.                                                 *)
(***************************************************************************)
Variants == {"Event", "FullWordEvent", "Messages"}

Construct(variant, metadata, folder) ==
    CASE variant = "Event" ->
           EventInit(metadata, folder.full_words, folder.timestamps,
                     folder.states, folder.sample_numbers)
      [] variant = "FullWordEvent" ->
           FullWordEventInit(metadata, folder.full_words, folder.timestamps,
                             folder.sample_numbers)
      [] variant = "Messages" ->
           MessagesInit(metadata, folder.text, folder.sample_numbers,
                        folder.timestamps)

ConstructVariant ==
    /\ pc = "idle"
    /\ \E variant \in Variants, folder \in EventFolders :
          LET r == Construct(variant, NiDaqMeta, folder)
          IN  /\ call' = "construct"
              /\ args' = [variant |-> variant, arrays |-> folder]
              /\ ret' = r.value
              /\ error' = r.error
              /\ locals' = <<>>
              /\ pc' = IF r.error = NoError THEN "returned" ELSE "raised"
              /\ UNCHANGED dh5file

(***************************************************************************)
(* remove_repeating_simultaneous_words called on its own, on an Event of   *)
(* up to MaxWords samples whose timestamps and sample numbers differ from  *)
(* sample to sample.                                                       *)
(***************************************************************************)
DedupEvents ==
    { [type |-> "Event", metadata |-> NetworkEventsMeta,
       full_words |-> w,
       timestamps |-> [i \in DOMAIN w |-> i + i],
       states |-> [i \in DOMAIN w |-> 1],
       sample_numbers |-> [i \in DOMAIN w |-> i + Len(w)]] :
      w \in SeqsUpTo(DedupWords, MaxWords) }

RemoveRepeatingSimultaneousWords ==
    /\ pc = "idle"
    /\ \E event \in DedupEvents :
          /\ call' = "remove_repeating_simultaneous_words"
          /\ args' = [event |-> event]
          /\ ret' = remove_repeating_simultaneous_words(event)
          /\ locals' = [unique_indices |-> UniqueIndices(event.full_words)]
          /\ pc' = "returned"
          /\ UNCHANGED <<dh5file, error>>

(***************************************************************************)
(* decimate_raw_data (oecon.decimation): block numbering, channel-set      *)
(* resolution and provenance.  The channel names of a recording's streams  *)
(* are the first names of the rows of ChannelNameTable.  An inclusion list *)
(* holds names of the recording, each once, in any order.                  *)
(***************************************************************************)
MaxDecimChannels == 3  \* channels of a continuous stream given to the decimation
MaxIncluded == 2       \* names of an explicit included_channel_names

ChannelNameTable ==
    << <<"CH1", "CH2", "CH3", "CH4", "CH5">>,
       <<"B1", "B2", "B3", "B4", "B5">>,
       <<"C1", "C2", "C3", "C4", "C5">>,
       <<"D1", "D2", "D3", "D4", "D5">> >>

StartBlockIds == {ContGroups.LFP}

DecimRecordings ==
    {[continuous_is_none |-> TRUE, continuous |-> <<>>]}
    \cup {[continuous_is_none |-> FALSE,
           continuous |-> [i \in DOMAIN counts |->
                             [channel_names |-> SubSeq(ChannelNameTable[i], 1, counts[i])]]] :
            counts \in SeqsUpTo(1..MaxDecimChannels, MaxStreams)}

\* every channel name of the recording: stream order, then native channel order
AllChannelNames(recording) ==
    Flatten([i \in DOMAIN recording.continuous |-> recording.continuous[i].channel_names])

\* lists of at most MaxIncluded names of the recording, without repetition
InclusionLists(recording) ==
    { l \in SeqsUpTo(Range(AllChannelNames(recording)), MaxIncluded) :
        /\ l # <<>>
        /\ \A i, j \in DOMAIN l : i # j => l[i] # l[j] }

DecimationConfigs(recording) ==
    [included_channel_names : {<<>>} \cup {<<l>> : l \in InclusionLists(recording)},
     start_block_id : StartBlockIds]

\* fault variant: the inclusion list is ignored
ResolveAlwaysAll(config, recording) == AllChannelNames(recording)

\* the working channel set: included_channel_names if set, else every channel
ResolveChannels(config, recording) ==
    IF config.included_channel_names # <<>> THEN config.included_channel_names[1]
    ELSE AllChannelNames(recording)

\* the selected channels, in the streams' native channel order
SelectedChannels(config, recording) ==
    LET resolved == ResolveChannels(config, recording)
    IN  SelectSeq(AllChannelNames(recording), LAMBDA n : n \in Range(resolved))

\* fault variant: the first identifier is start_block_id + 1
DecimBlocksFromZero(config, recording) ==
    LET selected == SelectedChannels(config, recording)
    IN  [k \in DOMAIN selected |->
            [cont_group_id |-> config.start_block_id + k, name |-> selected[k]]]

\* one block per selected channel, identifiers sequential from start_block_id
DecimBlocks(config, recording) ==
    LET selected == SelectedChannels(config, recording)
    IN  [k \in DOMAIN selected |->
            [cont_group_id |-> config.start_block_id + (k - 1), name |-> selected[k]]]

\* fault variant: one provenance entry per channel
ProvenancePerChannel(config, recording) ==
    [k \in DOMAIN SelectedChannels(config, recording) |->
        [operation |-> "decimate_raw_data",
         included_channel_names |-> ResolveChannels(config, recording)]]

\* the provenance entries of one invocation
Provenance(config, recording) ==
    <<[operation |-> "decimate_raw_data",
       included_channel_names |-> ResolveChannels(config, recording)]>>

\* fails when the recording exposes no continuous streams at all, before any
\* channel is processed
decimate_raw_data(config, recording) ==
    IF recording.continuous_is_none \/ Len(recording.continuous) = 0
    THEN [error |-> "AssertionError", cont |-> <<>>, operations |-> <<>>,
          ret |-> <<>>]
    ELSE [error |-> NoError,
          cont |-> DecimBlocks(config, recording),
          operations |-> Provenance(config, recording),
          ret |-> [config EXCEPT
                     !.included_channel_names = <<ResolveChannels(config, recording)>>]]

DecimateRawData ==
    /\ pc = "idle"
    /\ \E recording \in DecimRecordings :
        \E config \in DecimationConfigs(recording) :
          LET r == decimate_raw_data(config, recording)
          IN  /\ call' = "decimate_raw_data"
              /\ args' = [config |-> config, recording |-> recording]
              /\ dh5file' = [EmptyArchive EXCEPT !.created = TRUE,
                                                 !.cont = r.cont,
                                                 !.operations = r.operations]
              /\ ret' = r.ret
              /\ error' = r.error
              /\ pc' = IF r.error = NoError THEN "returned" ELSE "raised"
              /\ locals' = [calls |-> 1, first_ret |-> <<>>]

\* a second invocation on the same recording into a fresh archive, with the
\* configuration of the first one or with the configuration the first returned
DecimateRawDataAgain ==
    /\ pc = "returned"
    /\ call = "decimate_raw_data"
    /\ locals.calls = 1
    /\ \E config \in {args.config, ret} :
          LET r == decimate_raw_data(config, args.recording)
          IN  /\ args' = [config |-> config, recording |-> args.recording]
              /\ dh5file' = [EmptyArchive EXCEPT !.created = TRUE,
                                                 !.cont = r.cont,
                                                 !.operations = r.operations]
              /\ ret' = r.ret
              /\ error' = r.error
              /\ pc' = IF r.error = NoError THEN "returned" ELSE "raised"
              /\ locals' = [calls |-> 2, first_ret |-> ret]
              /\ UNCHANGED call

(***************************************************************************)
(* decimate_np_array: a low-pass filter along the sample axis, then every  *)
(* downsampling_factor-th sample is retained.  The data are the columns    *)
(* (channels) of the array; a sample is named by its position in the       *)
(* input, its value is left out.  The decimated samples stand at the       *)
(* times 0, factor / sample_rate, ... (the time axis the tests plot them   *)
(* against), i.e. the first sample is retained.                            *)
(***************************************************************************)
MaxSamples == 7        \* samples of an array given to decimate_np_array
MaxFactor == 3         \* downsampling factors 1..MaxFactor

FilterTypes == {"fir", "iir"}

\* 1-D input: one column, ndim 1; 2-D input: samples x channels
DecimArrays ==
    { [ndim |-> 2, columns |-> [ch \in 1..nc |-> [i \in 1..n |-> i]]] :
      nc \in 1..MaxChannels, n \in 1..MaxSamples }
    \cup { [ndim |-> 1, columns |-> <<[i \in 1..n |-> i]>>] : n \in 1..MaxSamples }

\* the anti-aliasing filter: one filtered sample per input sample
LowPass(column, filter_type) ==
    [i \in DOMAIN column |-> [at |-> column[i], filter |-> filter_type]]

\* fault variant: only complete groups of downsampling_factor samples give
\* an output sample
RetainFullGroups(column, downsampling_factor) ==
    [k \in 1..(Len(column) \div downsampling_factor) |->
        column[(k - 1) * downsampling_factor + 1]]

\* every downsampling_factor-th sample, the first one included
RetainEveryFactorTh(column, downsampling_factor) ==
    LET kept == {i \in DOMAIN column : (i - 1) % downsampling_factor = 0}
    IN  [k \in 1..Cardinality(kept) |-> column[(k - 1) * downsampling_factor + 1]]

decimate_np_array(data, downsampling_factor, filter_type) ==
    [ndim |-> data.ndim,
     columns |-> [ch \in DOMAIN data.columns |->
                    RetainEveryFactorTh(LowPass(data.columns[ch], filter_type),
                                        downsampling_factor)]]

DecimateNpArray ==
    /\ pc = "idle"
    /\ \E data \in DecimArrays, downsampling_factor \in 1..MaxFactor,
          filter_type \in FilterTypes :
          /\ call' = "decimate_np_array"
          /\ args' = [data |-> data, downsampling_factor |-> downsampling_factor,
                      filter_type |-> filter_type]
          /\ ret' = decimate_np_array(data, downsampling_factor, filter_type)
          /\ pc' = "returned"
          /\ locals' = <<>>
          /\ UNCHANGED <<dh5file, error>>

Init ==
    /\ pc = "idle"
    /\ call = "none"
    /\ args = <<>>
    /\ dh5file = EmptyArchive
    /\ ret = <<>>
    /\ locals = <<>>
    /\ error = NoError

Next ==
    \/ DhFromOeRecording
    \/ ProcessOeEvents
    \/ RemoveRepeatingSimultaneousWords
    \/ DecimateRawData
    \/ DecimateRawDataAgain
    \/ EventFromEventfolder
    \/ ConstructVariant
    \/ DecimateNpArray

Spec == Init /\ [][Next]_vars


(***************************************************************************)
(* Properties.                                                             *)
(***************************************************************************)
EventsReturned == call = "process_oe_events" /\ pc = "returned"

\* C1: the timestamps process_oe_events hands to the archive writer are
\* non-decreasing (ties allowed) for any contents of the two sources, and
\* the monotonicity assertion after the sort never fails.
C1_MergedTimestampsNonDecreasing ==
    call = "process_oe_events" =>
        /\ pc = "raised" => locals.raised_at # "np.diff(timestamps_ns) >= 0"
        /\ pc = "returned" =>
            /\ dh5file.ev02_written
            /\ \A k \in 1..(Len(dh5file.ev02.timestamps) - 1) :
                  dh5file.ev02.timestamps[k] <= dh5file.ev02.timestamps[k + 1]

\* C1 witness: both sources contribute and the concatenated timestamps were
\* out of order before the sort.
C1_Witness ==
    /\ EventsReturned
    /\ locals.n_primary >= 2
    /\ Len(locals.unsorted_timestamps_ns) > locals.n_primary
    /\ locals.unsorted_timestamps_ns[1] > locals.unsorted_timestamps_ns[2]
    /\ dh5file.ev02.timestamps[1] < dh5file.ev02.timestamps[2]

\* C2: in the merged trigger stream every record of the primary source
\* carries its state code unchanged, and every record of the marker source
\* carries its full word plus network_events_offset, whether one or both
\* sources are present.
C2_OffsetOnMarkerSourceOnly ==
    EventsReturned =>
        /\ Len(dh5file.ev02.event_codes) = Len(locals.sort_indices)
        /\ \A k \in DOMAIN dh5file.ev02.event_codes :
              LET i == locals.sort_indices[k]
              IN  IF i <= locals.n_primary
                  THEN dh5file.ev02.event_codes[k]
                         = args.disk[NiDaqMeta.folder_name].states[i]
                  ELSE dh5file.ev02.event_codes[k]
                         = locals.marker.full_words[i - locals.n_primary]
                           + args.event_config.network_events_offset

\* C2 witness: both sources present, a non-zero offset, and a marker record
\* merged in front of a primary record.
C2_Witness ==
    /\ EventsReturned
    /\ args.event_config.network_events_offset > 0
    /\ locals.n_primary >= 1
    /\ Len(locals.sort_indices) > locals.n_primary
    /\ locals.sort_indices[1] > locals.n_primary
    /\ dh5file.ev02.event_codes[1] = locals.marker.full_words[1]
                                     + args.event_config.network_events_offset

DedupReturned == call = "remove_repeating_simultaneous_words" /\ pc = "returned"

DhCalled == call = "dh_from_oe_recording"

\* the group of the stream a block was written for
GroupOfBlock(w) ==
    OE_PROCESSOR_CONT_GROUP_MAP[args.recording.continuous[w.stream].stream_name]

\* C4: every block dh_from_oe_recording writes has its identifier in the
\* inclusive range of its stream's category (a recording with too many
\* channels fails with a capacity error instead of writing such a block).
C4_BlockIdWithinCategoryRange ==
    DhCalled =>
        \A k \in DOMAIN dh5file.cont :
            LET w == dh5file.cont[k]
            IN  /\ CONT_GROUP_RANGES[GroupOfBlock(w)][1] <= w.cont_group_id
                /\ w.cont_group_id <= CONT_GROUP_RANGES[GroupOfBlock(w)][2]

\* C5: within one run of dh_from_oe_recording no two block writes use the
\* same cont_group_id, for both values of split_channels_into_cont_blocks.
C5_BlockIdsUnique ==
    DhCalled =>
        Cardinality({dh5file.cont[k].cont_group_id : k \in DOMAIN dh5file.cont})
            = Len(dh5file.cont)

DecimReturned == call = "decimate_raw_data" /\ pc = "returned"

\* position of a channel name in the recording: stream order, then native
\* channel order
PositionOf(name) ==
    CHOOSE p \in DOMAIN AllChannelNames(args.recording) :
        AllChannelNames(args.recording)[p] = name

\* C6: the block identifiers one decimate_raw_data invocation writes are
\* start_block_id .. start_block_id + len(included channels) - 1, one per
\* selected channel, in the channels' order in the recording; CH1,CH2,CH3
\* with included_channel_names = [CH1,CH3] and start_block_id = 2001 give
\* 2001 to CH1, 2002 to CH3 and nothing to CH2.
C6_DecimBlockIdsContiguous ==
    DecimReturned =>
        LET included == ret.included_channel_names[1]
            blocks == dh5file.cont
        IN  /\ Len(blocks) = Len(included)
            /\ {blocks[k].name : k \in DOMAIN blocks} = Range(included)
            /\ \A k \in DOMAIN blocks :
                  blocks[k].cont_group_id = args.config.start_block_id + k - 1
            /\ \A k \in 1..(Len(blocks) - 1) :
                  PositionOf(blocks[k].name) < PositionOf(blocks[k + 1].name)
            /\ ( /\ AllChannelNames(args.recording) = <<"CH1", "CH2", "CH3">>
                 /\ args.config.included_channel_names = << <<"CH1", "CH3">> >>
                 /\ args.config.start_block_id = 2001 )
               => blocks = <<[cont_group_id |-> 2001, name |-> "CH1"],
                             [cont_group_id |-> 2002, name |-> "CH3"]>>

\* C6 witness: the selection CH1, CH3 of three channels got 2001 and 2002.
C6_Witness ==
    /\ DecimReturned
    /\ AllChannelNames(args.recording) = <<"CH1", "CH2", "CH3">>
    /\ args.config.included_channel_names = << <<"CH1", "CH3">> >>
    /\ dh5file.cont = <<[cont_group_id |-> 2001, name |-> "CH1"],
                        [cont_group_id |-> 2002, name |-> "CH3"]>>

\* C7: with an explicit included_channel_names the returned configuration
\* carries that list, and a second call resolves to the same set; with it
\* unset the returned configuration carries every channel name of the
\* input, in stream order and then native channel order.
C7_ChannelSetResolution ==
    DecimReturned =>
        /\ args.config.included_channel_names # <<>> =>
              ret.included_channel_names = args.config.included_channel_names
        /\ args.config.included_channel_names = <<>> =>
              /\ ret.included_channel_names = <<AllChannelNames(args.recording)>>
              /\ \A i \in DOMAIN args.recording.continuous :
                   \A k \in DOMAIN args.recording.continuous[i].channel_names :
                     \E p \in DOMAIN ret.included_channel_names[1] :
                        /\ ret.included_channel_names[1][p]
                             = args.recording.continuous[i].channel_names[k]
                        /\ i = 1 => p = k
                        /\ i = 2 => p = k + Len(args.recording.continuous[1].channel_names)
        /\ locals.calls = 2 =>
              ret.included_channel_names = locals.first_ret.included_channel_names

\* C7 witness: a second call on two streams, given the configuration the
\* first call (included_channel_names unset) returned.
C7_Witness ==
    /\ DecimReturned
    /\ locals.calls = 2
    /\ Len(args.recording.continuous) = 2
    /\ args.config.included_channel_names = <<AllChannelNames(args.recording)>>
    /\ ret.included_channel_names = locals.first_ret.included_channel_names
    /\ Len(ret.included_channel_names[1]) = 3

\* C8: one decimate_raw_data invocation performs exactly one block write per
\* selected channel, none for a channel that is not selected, and exactly
\* one provenance write, for any number of streams and channels.
C8_OneBlockPerChannelOneProvenance ==
    DecimReturned =>
        LET selected == Range(ret.included_channel_names[1])
        IN  /\ \A n \in Range(AllChannelNames(args.recording)) :
                  Cardinality({k \in DOMAIN dh5file.cont : dh5file.cont[k].name = n})
                      = IF n \in selected THEN 1 ELSE 0
            /\ Len(dh5file.operations) = 1

\* C8 witness: two streams, some channel selected and some channel not.
C8_Witness ==
    /\ DecimReturned
    /\ Len(args.recording.continuous) = 2
    /\ Len(dh5file.cont) = 2
    /\ Len(AllChannelNames(args.recording)) > 3
    /\ Len(dh5file.operations) = 1

NoContinuousData ==
    args.recording.continuous_is_none \/ Len(args.recording.continuous) = 0

\* C9: with no continuous streams (None or an empty list) dh_from_oe_recording
\* fails before the archive file is created and before any block is written,
\* and decimate_raw_data raises AssertionError without writing anything.
C9_NoContinuousDataFailsFirst ==
    /\ (DhCalled /\ NoContinuousData) =>
          /\ pc = "raised"
          /\ error \in {"AssertionError", "ValueError"}
          /\ ~dh5file.created
          /\ dh5file.cont = <<>>
    /\ (call = "decimate_raw_data" /\ NoContinuousData) =>
          /\ pc = "raised"
          /\ error = "AssertionError"
          /\ dh5file.cont = <<>>
          /\ dh5file.operations = <<>>

\* C9 witness: dh_from_oe_recording was given an empty list of streams.
C9_Witness ==
    /\ DhCalled
    /\ ~args.recording.continuous_is_none
    /\ args.recording.continuous = <<>>
    /\ error = "ValueError"
    /\ ~dh5file.created

\* the streams of the recording whose name is no key of the map
UnknownStreams ==
    {i \in DOMAIN args.recording.continuous :
        args.recording.continuous[i].stream_name
            \notin DOMAIN OE_PROCESSOR_CONT_GROUP_MAP}

\* C10: when dh_from_oe_recording reaches a continuous stream whose identity
\* is no key of OE_PROCESSOR_CONT_GROUP_MAP it raises an error, and no block
\* is written for that stream or for any stream after it.
C10_UnknownStreamAbortsRun ==
    (DhCalled /\ ~NoContinuousData /\ UnknownStreams # {}) =>
        /\ pc = "raised"
        /\ error = "ValueError"
        /\ \A k \in DOMAIN dh5file.cont :
              \A u \in UnknownStreams : dh5file.cont[k].stream < u

\* C10 witness: the first stream was written, the second one is unknown.
C10_Witness ==
    /\ DhCalled
    /\ Len(args.recording.continuous) = 2
    /\ UnknownStreams = {2}
    /\ error = "ValueError"
    /\ dh5file.cont # <<>>


LoadCalled == call = "event_from_eventfolder"

RecognisedProcessors == {"Network Events", "Message Center", "NI-DAQmx"}

\* C11: event_from_eventfolder picks the variant from source_processor
\* alone: "Network Events" gives a FullWordEvent without repeated adjacent
\* words, "Message Center" gives Messages, "NI-DAQmx" and every other
\* identity give the Event of the folder's arrays; once the folder is found,
\* a warning is emitted exactly for an identity outside the three, and that
\* load returns the Event whenever the NI-DAQmx load of the same folder would.
C11_VariantFromProcessorIdentity ==
    (LoadCalled /\ args.metadata.folder_name \in DOMAIN args.disk) =>
        LET p == args.metadata.source_processor
            folder == args.disk[args.metadata.folder_name]
            same_length == /\ Len(folder.full_words) = Len(folder.timestamps)
                           /\ Len(folder.timestamps) = Len(folder.states)
                           /\ Len(folder.states) = Len(folder.sample_numbers)
        IN  /\ locals.warned <=> p \notin RecognisedProcessors
            /\ (p \notin {"Network Events", "Message Center"} /\ same_length)
                  => pc = "returned"
            /\ pc = "returned" =>
                 CASE p = "Network Events" ->
                        /\ ret.type = "FullWordEvent"
                        /\ \A k \in 1..(Len(ret.full_words) - 1) :
                              ret.full_words[k] # ret.full_words[k + 1]
                        /\ Range(ret.full_words) = Range(folder.full_words)
                   [] p = "Message Center" ->
                        /\ ret.type = "Messages"
                        /\ ret.text = folder.text
                   [] OTHER ->
                        /\ ret.type = "Event"
                        /\ ret.full_words = folder.full_words
                        /\ ret.states = folder.states
                        /\ ret.timestamps = folder.timestamps
                        /\ ret.sample_numbers = folder.sample_numbers

\* C11 witness: an unrecognised identity was loaded as an Event of two
\* samples, with a warning.
C11_Witness ==
    /\ LoadCalled /\ pc = "returned"
    /\ args.metadata.source_processor = "File Reader"
    /\ locals.warned
    /\ ret.type = "Event"
    /\ Len(ret.full_words) = 2


\* C12: each name attribute carries the offset of its source's codes: a
\* name of ttl_line_names is written with its code unchanged (the primary
\* source's codes get no offset), a name of network_events_code_name_map
\* with its code plus network_events_offset.
C12_NameOffsetsFollowSource ==
    EventsReturned =>
        LET cfg == args.event_config
            marker_names ==
                IF find_marker_source(args.info) = <<>>
                   \/ cfg.network_events_code_name_map = <<>>
                THEN {}
                ELSE DOMAIN cfg.network_events_code_name_map[1]
            ttl_names == IF cfg.ttl_line_names = <<>> THEN {}
                         ELSE DOMAIN cfg.ttl_line_names[1]
        IN  /\ DOMAIN dh5file.attrs = marker_names \cup ttl_names
            /\ \A n \in marker_names :
                  dh5file.attrs[n] = cfg.network_events_code_name_map[1][n]
                                     + cfg.network_events_offset
            /\ \A n \in ttl_names \ marker_names :
                  dh5file.attrs[n] = cfg.ttl_line_names[1][n]


DecimArrayReturned == call = "decimate_np_array" /\ pc = "returned"

C14_MergeIsStable ==
    EventsReturned =>
        \A k, l \in DOMAIN locals.sort_indices :
            (/\ k < l
             /\ locals.unsorted_timestamps_ns[locals.sort_indices[k]]
                  = locals.unsorted_timestamps_ns[locals.sort_indices[l]])
            => locals.sort_indices[k] < locals.sort_indices[l]

\* C14 amended: the merge sorts on the timestamp alone and always passes
\* its monotonicity check: a record with a smaller nanosecond timestamp
\* precedes every record with a larger one, whatever their codes and
\* sources; the order of records with equal timestamps is not fixed.
C14_MergeKeyedOnTimestampOnly ==
    call = "process_oe_events" =>
        /\ pc = "raised" => locals.raised_at = "event_from_eventfolder"
        /\ pc = "returned" =>
              \A k, l \in DOMAIN locals.sort_indices :
                  locals.unsorted_timestamps_ns[locals.sort_indices[k]]
                    < locals.unsorted_timestamps_ns[locals.sort_indices[l]]
                  => k < l

\* C14 witness: a marker record was merged in front of a primary record of
\* the same nanosecond timestamp, and behind a record of a smaller one.
C14_Witness ==
    /\ EventsReturned
    /\ locals.n_primary >= 1
    /\ \E k \in 2..(Len(locals.sort_indices) - 1) :
          /\ locals.sort_indices[k] > locals.n_primary
          /\ locals.sort_indices[k + 1] <= locals.n_primary
          /\ dh5file.ev02.timestamps[k] = dh5file.ev02.timestamps[k + 1]
          /\ dh5file.ev02.timestamps[k - 1] < dh5file.ev02.timestamps[k]


\* the parallel arrays of an instance of one of the three variants
ParallelArrays(instance) ==
    CASE instance.type = "Event" ->
           {instance.full_words, instance.timestamps, instance.states,
            instance.sample_numbers}
      [] instance.type = "FullWordEvent" ->
           {instance.full_words, instance.timestamps, instance.sample_numbers}
      [] instance.type = "Messages" ->
           {instance.text, instance.timestamps, instance.sample_numbers}

\* C15: every instance of Event, FullWordEvent or Messages that comes out
\* of a constructor or a loader has parallel arrays of one length:
\* construction from arrays of different lengths fails.
C15_LengthsCheckedOnConstruction ==
    (call \in {"construct", "event_from_eventfolder"} /\ pc = "returned") =>
        \A a, b \in ParallelArrays(ret) : Len(a) = Len(b)


\* the folder of a source process_oe_events locates is not on disk
LocatedFolderMissing ==
    \/ /\ find_ev02_source(args.info) # <<>>
       /\ find_ev02_source(args.info)[1].folder_name \notin DOMAIN args.disk
    \/ /\ find_marker_source(args.info) # <<>>
       /\ find_marker_source(args.info)[1].folder_name \notin DOMAIN args.disk

\* C16: a failing process_oe_events leaves the archive as it was: no
\* trigger table and no name attribute is written; a missing folder of
\* either located source makes the call fail, also after the primary source
\* was loaded.
C16_ArchiveUnchangedOnFailure ==
    call = "process_oe_events" =>
        /\ LocatedFolderMissing => pc = "raised"
        /\ pc = "raised" =>
              /\ error # NoError
              /\ ~dh5file.ev02_written
              /\ dh5file = [EmptyArchive EXCEPT !.created = TRUE]

\* C16 witness: the primary source's folder was there with two samples, the
\* marker source's folder was missing, name maps were configured, and the
\* call failed.
C16_Witness ==
    /\ call = "process_oe_events" /\ pc = "raised"
    /\ find_ev02_source(args.info) # <<>>
    /\ find_marker_source(args.info) # <<>>
    /\ NiDaqMeta.folder_name \in DOMAIN args.disk
    /\ Len(args.disk[NiDaqMeta.folder_name].timestamps) = 2
    /\ NetworkEventsMeta.folder_name \notin DOMAIN args.disk
    /\ args.event_config.ttl_line_names # <<>>


\* how often x occurs in the list
CountOf(list, x) == Cardinality({i \in DOMAIN list : list[i] = x})

\* the (timestamp in ns, code) records the primary source contributes
PrimaryRecords ==
    IF find_ev02_source(args.info) = <<>> THEN <<>>
    ELSE LET f == args.disk[NiDaqMeta.folder_name]
         IN  [i \in DOMAIN f.timestamps |->
                <<RoundHalfEven(f.timestamps[i]), f.states[i]>>]

\* the records the marker source contributes: the first sample of each run
\* of equal words, the word shifted by network_events_offset
MarkerRecords ==
    IF find_marker_source(args.info) = <<>> THEN <<>>
    ELSE LET f == args.disk[NetworkEventsMeta.folder_name]
             first(i) == i = 1 \/ f.full_words[i] # f.full_words[i - 1]
             kept == Where([i \in DOMAIN f.full_words |-> first(i)], 1)
         IN  [k \in DOMAIN kept |->
                <<RoundHalfEven(f.timestamps[kept[k]]),
                  f.full_words[kept[k]] + args.event_config.network_events_offset>>]

\* the records of the trigger table, timestamp paired with code by position
WrittenRecords ==
    [k \in DOMAIN dh5file.ev02.timestamps |->
        <<dh5file.ev02.timestamps[k], dh5file.ev02.event_codes[k]>>]

\* C17: the merged stream is a permutation of the primary records followed
\* by the de-duplicated, offset marker records: as long as their sum, every
\* record as often as in the concatenation, timestamps still paired with
\* their codes; a source that is not in the recording is no error and
\* contributes nothing, and with neither source an empty table is written.
C17_MergedStreamIsPermutation ==
    call = "process_oe_events" =>
        /\ ~LocatedFolderMissing => pc = "returned"
        /\ pc = "returned" =>
              LET expected == PrimaryRecords \o MarkerRecords
              IN  /\ dh5file.ev02_written
                  /\ Len(dh5file.ev02.timestamps) = Len(dh5file.ev02.event_codes)
                  /\ Len(WrittenRecords) = Len(PrimaryRecords) + Len(MarkerRecords)
                  /\ \A x \in Range(expected) \cup Range(WrittenRecords) :
                        CountOf(WrittenRecords, x) = CountOf(expected, x)

\* C17 witness: one primary record and a marker source of two samples with
\* the same word and the same timestamp as the primary record: two records
\* are written, the marker record first.
C17_Witness ==
    /\ EventsReturned
    /\ Len(PrimaryRecords) = 1
    /\ NetworkEventsMeta.folder_name \in DOMAIN args.disk
    /\ Len(args.disk[NetworkEventsMeta.folder_name].full_words) = 2
    /\ Len(MarkerRecords) = 1
    /\ Len(WrittenRecords) = 2
    /\ WrittenRecords = MarkerRecords \o PrimaryRecords
    /\ WrittenRecords[1] # WrittenRecords[2]

=============================================================================
